---------------------------- MODULE Spec2Model ----------------------------
(***************************************************************************)
(* Model of llm_ci_runner/retry.py: the classification of backend errors   *)
(* as retriable or permanent (should_retry_openai_exception,               *)
(* should_retry_azure_exception, should_retry_network_exception) and the   *)
(* retry loop that the decorator retry_network_operation puts around a     *)
(* network operation.                                                      *)
(***************************************************************************)
EXTENDS Integers, Sequences, FiniteSets, TLC

VARIABLES
    exc,             \* classification harness: the exception under test
    r_openai,        \* result of should_retry_openai_exception(exc)
    r_azure,         \* result of should_retry_azure_exception(exc)
    r_network,       \* result of should_retry_network_exception(exc)
    pc,              \* retry loop: idle / attempting / waiting / success / failed
    attempt_number,  \* tenacity's retry_state.attempt_number (1-based)
    calls,           \* number of calls made to the wrapped operation
    history,         \* per call made: "ok" or the class of the error raised
    lastExc,         \* the error raised by the most recent call
    raised,          \* the error the caller of the wrapped operation receives
    wait,            \* seconds slept before the current attempt
    sched_n,         \* backoff schedule: the attempt number the wait is asked for
    sched_wait,      \* backoff schedule: the wait drawn for sched_n (0: none yet)
    entry,           \* the entry point that runs: "llm_runner" (src/llm_runner.py)
                     \* or "core" (src/llm_ci_runner/core.py); "none" outside a run
    messages,        \* input_data["messages"]: the raw message dictionaries
    msg_i,           \* create_chat_history: the loop index i (0-based)
    chat_history,    \* create_chat_history: the ChatHistory built so far
    chat_error,      \* create_chat_history: the InputValidationError raised
    conversation,    \* what the execution step receives as chat_history
    chat_pc,         \* "idle", "building", "built", "failed", "handed"
    run_mode,        \* core: "input_file" or "sk_template"; llm_runner: "input_file"
    run_pc,          \* the statement of main / run_llm_task that runs next
    credential,      \* the Azure credential: "none", "open", "closed"
    service,         \* the LLM service object: "none", "ready"
    close_calls,     \* calls of credential.close()
    schema_file,     \* the schema file given: "no_file", "model" (valid),
                     \* "invalid_file" (unreadable), "invalid_schema"
    schema_model,    \* "none", or "model" once a schema file is loaded
    requires_json,   \* _template_requires_json_output(template)
    backend_calls,   \* calls of the chat completion service / kernel.invoke
    content,         \* the content of the service's answer
    response,        \* the value execute_llm_task / process_sk_yaml_template returns
    run_error,       \* the exception that travels up to main's handlers
    out_file,        \* the output file: "absent", "partial", "complete"
    out_response,    \* the "response" value the output file holds
    writes,          \* times the output file was opened for writing
    exit_code,       \* the process exit code; -1 while the process runs
    schema_dict,     \* create_dynamic_model_from_schema: the schema document
    dynamic_model,   \* create_dynamic_model_from_schema: what it returned or raised
    side_effect,     \* execute_llm_task: what the service does at its 1st, 2nd, ... call
    task_schema,     \* execute_llm_task: schema_model, "none" or "model"
    call_count,      \* execute_llm_task: calls of service.get_chat_message_contents
    task_outcome,    \* execute_llm_task: what it returned or raised
    kernel_result,   \* what kernel.invoke(template, sk_arguments) gives
    template_requires_json, \* _template_requires_json_output(template)
    output_io,       \* what writing the output file meets
    sk_outcome,      \* per function: what it returned or raised
    sk_written,      \* per function: the response written to the output file
    run_args,        \* run_llm_task: the arguments of the call
    param_pc,        \* run_llm_task: "idle", "called", "validated", "ready",
                     \* "rejected", "failed", "dispatched"
    branch,          \* run_llm_task: the processing branch that runs
    param_error      \* run_llm_task: the error raised by validation or dispatch

classifyVars == <<exc, r_openai, r_azure, r_network>>
retryVars == <<pc, attempt_number, calls, history, lastExc, raised, wait>>
schedVars == <<sched_n, sched_wait>>
chatVars == <<messages, msg_i, chat_history, chat_error, conversation, chat_pc>>
runVars == <<run_mode, run_pc, credential, service, close_calls, schema_file,
             schema_model, requires_json,
             backend_calls, content, response, run_error, out_file,
             out_response, writes, exit_code>>
schemaVars == <<schema_dict, dynamic_model>>

taskVars == <<side_effect, task_schema, call_count, task_outcome>>

skVars == <<kernel_result, template_requires_json, output_io, sk_outcome, sk_written>>

paramVars == <<run_args, param_pc, branch, param_error>>

vars == <<classifyVars, retryVars, schedVars, entry, chatVars, runVars, schemaVars, taskVars, skVars, paramVars>>

(* What each part of the model leaves alone. *)
notClassifyVars == <<retryVars, schedVars, entry, chatVars, runVars,
    schemaVars,
    taskVars, skVars,
    paramVars>>
notRetryVars == <<classifyVars, schedVars, entry, chatVars, runVars,
    schemaVars,
    taskVars, skVars,
    paramVars>>
notSchedVars == <<classifyVars, retryVars, entry, chatVars, runVars,
    schemaVars,
    taskVars, skVars,
    paramVars>>
notChatVars == <<classifyVars, retryVars, schedVars, entry, runVars,
    schemaVars,
    taskVars, skVars,
    paramVars>>
notRunVars == <<classifyVars, retryVars, schedVars, entry, chatVars,
    schemaVars,
    taskVars, skVars,
    paramVars>>
notSchemaVars == <<classifyVars, retryVars, schedVars, entry, chatVars, runVars,
    taskVars, skVars,
    paramVars>>
notTaskVars == <<classifyVars, retryVars, schedVars, entry, chatVars, runVars, schemaVars,
    skVars,
    paramVars>>
notSkVars == <<classifyVars, retryVars, schedVars, entry, chatVars, runVars, schemaVars, taskVars,
    paramVars>>
notParamVars == <<classifyVars, retryVars, schedVars, entry, chatVars, runVars, schemaVars, taskVars, skVars>>

---------------------------------------------------------------------------
(* Bounds of the model: the integer status codes an error may carry.       *)
MinStatus == 398
MaxStatus == 601

(* Bound of the model: the attempt numbers the backoff schedule is asked for. *)
MaxScheduleAttempt == 8

(* Bound of the model: the number of entries of input_data["messages"]. *)
MaxMessages == 2

(* Bound of the model: the field names field1..fieldN of a schema document. *)
MaxFields == 2

(* Bound of the model: the calls the service is prepared to answer. *)
MaxSideEffects == 2

(* retry.py, default retry configuration constants *)
DEFAULT_MAX_RETRIES == 3
DEFAULT_MIN_WAIT == 1
DEFAULT_MAX_WAIT == 30
DEFAULT_EXPONENTIAL_MULTIPLIER == 1

---------------------------------------------------------------------------
(* Exceptions.  An exception is its class and what its status_code         *)
(* attribute holds: the attribute may be absent, None, a non-integer       *)
(* value, or an integer.                                                   *)

OpenAIClasses == {"APIConnectionError", "APITimeoutError", "RateLimitError", "APIError"}
AzureClasses == {"ClientAuthenticationError", "HttpResponseError",
                 "ServiceRequestError", "ServiceResponseError"}
OtherClasses == {"ValueError", "KeyboardInterrupt", "CancelledError"}
ExceptionClasses == OpenAIClasses \cup AzureClasses \cup OtherClasses

Absent == [kind |-> "absent", val |-> 0]
StatusValues ==
    {[kind |-> k, val |-> 0] : k \in {"absent", "none", "str"}}
        \cup {[kind |-> "int", val |-> v] : v \in MinStatus..MaxStatus}

Exceptions == [cls : ExceptionClasses, status : StatusValues]

(* The errors the backend raises in the retry loop: every class, with no   *)
(* status code, a None status code, or one of the HTTP status codes below. *)
BackendStatusCodes == {400, 401, 403, 404, 408, 422, 429, 500, 501, 502, 503, 504, 599}
BackendErrors ==
    {e \in Exceptions : e.status.kind \in {"absent", "none"}
                         \/ (e.status.kind = "int" /\ e.status.val \in BackendStatusCodes)}
NoExc == [cls |-> "NoException", status |-> Absent]

(* The class tree of the imported exception types: the classes an instance *)
(* of class c is an instance of.                                           *)
Bases(c) ==
    CASE c = "APITimeoutError" -> {"APITimeoutError", "APIConnectionError", "APIError"}
      [] c = "APIConnectionError" -> {"APIConnectionError", "APIError"}
      [] c = "RateLimitError" -> {"RateLimitError", "APIError"}
      [] c = "ClientAuthenticationError" -> {"ClientAuthenticationError", "HttpResponseError"}
      [] OTHER -> {c}

isinstance(e, classes) == Bases(e.cls) \cap classes # {}
hasattr_status_code(e) == e.status.kind # "absent"
is_int_status(e) == e.status.kind = "int"

---------------------------------------------------------------------------
(* should_retry_openai_exception *)

should_retry_openai_exception_StatusFirst(e) ==
    IF isinstance(e, {"APIError"}) /\ hasattr_status_code(e)
    THEN IF is_int_status(e)
         THEN 500 <= e.status.val /\ e.status.val < 600
         ELSE FALSE
    ELSE isinstance(e, {"APIConnectionError", "APITimeoutError", "RateLimitError"})

should_retry_openai_exception_NoTypeCheck(e) ==
    IF isinstance(e, {"APIConnectionError", "APITimeoutError", "RateLimitError"})
    THEN TRUE
    ELSE IF hasattr_status_code(e)
         THEN IF is_int_status(e)
              THEN 500 <= e.status.val /\ e.status.val < 600
              ELSE FALSE
         ELSE FALSE

should_retry_openai_exception_Below599(e) ==
    IF isinstance(e, {"APIConnectionError", "APITimeoutError", "RateLimitError"})
    THEN TRUE
    ELSE IF isinstance(e, {"APIError"}) /\ hasattr_status_code(e)
         THEN IF is_int_status(e)
              THEN 500 <= e.status.val /\ e.status.val < 599
              ELSE FALSE
         ELSE FALSE

should_retry_openai_exception(e) ==
    IF isinstance(e, {"APIConnectionError", "APITimeoutError", "RateLimitError"})
    THEN TRUE
    ELSE IF isinstance(e, {"APIError"}) /\ hasattr_status_code(e)
         THEN IF is_int_status(e)
              THEN 500 <= e.status.val /\ e.status.val < 600
              ELSE FALSE
         ELSE FALSE

---------------------------------------------------------------------------
(* should_retry_azure_exception *)

should_retry_azure_exception_NoAuthCheck(e) ==
    IF isinstance(e, {"ServiceRequestError", "ServiceResponseError"})
    THEN TRUE
    ELSE IF isinstance(e, {"HttpResponseError"})
         THEN IF hasattr_status_code(e)
              THEN IF is_int_status(e)
                   THEN e.status.val \in {408, 429, 500, 502, 503, 504}
                   ELSE FALSE
              ELSE FALSE
         ELSE FALSE

should_retry_azure_exception_No408(e) ==
    IF isinstance(e, {"ClientAuthenticationError"})
    THEN FALSE
    ELSE IF isinstance(e, {"ServiceRequestError", "ServiceResponseError"})
    THEN TRUE
    ELSE IF isinstance(e, {"HttpResponseError"})
         THEN IF hasattr_status_code(e)
              THEN IF is_int_status(e)
                   THEN e.status.val \in {429, 500, 502, 503, 504}
                   ELSE FALSE
              ELSE FALSE
         ELSE FALSE

should_retry_azure_exception_All5xx(e) ==
    IF isinstance(e, {"ClientAuthenticationError"})
    THEN FALSE
    ELSE IF isinstance(e, {"ServiceRequestError", "ServiceResponseError"})
    THEN TRUE
    ELSE IF isinstance(e, {"HttpResponseError"})
         THEN IF hasattr_status_code(e)
              THEN IF is_int_status(e)
                   THEN e.status.val \in {408, 429}
                        \/ (500 <= e.status.val /\ e.status.val < 600)
                   ELSE FALSE
              ELSE FALSE
         ELSE FALSE

should_retry_azure_exception(e) ==
    IF isinstance(e, {"ClientAuthenticationError"})
    THEN FALSE
    ELSE IF isinstance(e, {"ServiceRequestError", "ServiceResponseError"})
    THEN TRUE
    ELSE IF isinstance(e, {"HttpResponseError"})
         THEN IF hasattr_status_code(e)
              THEN IF is_int_status(e)
                   THEN e.status.val \in {408, 429, 500, 502, 503, 504}
                   ELSE FALSE
              ELSE FALSE
         ELSE FALSE

---------------------------------------------------------------------------
(* should_retry_network_exception *)

should_retry_network_exception(e) ==
    should_retry_openai_exception(e) \/ should_retry_azure_exception(e)

---------------------------------------------------------------------------
(* The classification functions called directly on an exception.           *)

Verdict(b) == IF b THEN "retry" ELSE "noretry"

(* The parts of the model a specification does not exercise stay as they  *)
(* are before anything has run.                                            *)
IdleClassify ==
    /\ exc = NoExc
    /\ r_openai = "unset"
    /\ r_azure = "unset"
    /\ r_network = "unset"

IdleRetry ==
    /\ pc = "idle"
    /\ attempt_number = 0
    /\ calls = 0
    /\ history = <<>>
    /\ lastExc = NoExc
    /\ raised = NoExc
    /\ wait = 0

IdleSched ==
    /\ sched_n = 0
    /\ sched_wait = 0

(* No InputValidationError raised. *)
NoChatError == [cls |-> "none", prefix |-> "", index |-> 0 - 1, detail |-> ""]

IdleChat ==
    /\ messages = <<>>
    /\ msg_i = 0
    /\ chat_history = <<>>
    /\ chat_error = NoChatError
    /\ conversation = <<>>
    /\ chat_pc = "idle"

(* Python values: kind is the type, text is str(value), items are the      *)
(* entries of a dict (numbers in tenths).                                  *)
NoValue == [kind |-> "none", text |-> "", items |-> {}]

(* No exception travelling. *)
NoRunError == [cls |-> "none", message |-> ""]

IdleRun ==
    /\ run_mode = "none"
    /\ run_pc = "idle"
    /\ credential = "none"
    /\ service = "none"
    /\ close_calls = 0
    /\ schema_file = "no_file"
    /\ schema_model = "none"
    /\ requires_json = FALSE
    /\ backend_calls = 0
    /\ content = ""
    /\ response = NoValue
    /\ run_error = NoRunError
    /\ out_file = "absent"
    /\ out_response = NoValue
    /\ writes = 0
    /\ exit_code = 0 - 1

(* No schema document given, no model asked for. *)
NoSchemaDict == [shape |-> "none", properties |-> {}, required |-> {},
                 ref |-> "none"]
NoModel == [status |-> "unset", fields |-> {}, required |-> {}]

IdleSchema ==
    /\ schema_dict = NoSchemaDict
    /\ dynamic_model = NoModel

(* execute_llm_task not called. *)
NotCalled == [value |-> NoValue, error |-> [cls |-> "not called", message |-> ""]]

IdleTask ==
    /\ side_effect = <<>>
    /\ task_schema = "none"
    /\ call_count = 0
    /\ task_outcome = NotCalled

SkFunctions == {"process_sk_yaml_template", "process_sk_yaml_template_with_vars"}

NoKernelResult == [shape |-> "None", content |-> "", text |-> "", raises |-> "none"]

IdleSk ==
    /\ kernel_result = NoKernelResult
    /\ template_requires_json = FALSE
    /\ output_io = "no_output_file"
    /\ sk_outcome = [f \in SkFunctions |-> NotCalled]
    /\ sk_written = [f \in SkFunctions |-> NoValue]

(* Python's None as the value of an optional argument. *)
None == "<None>"

NoArgs ==
    [input_file |-> None, template_file |-> None,
     template_content |-> None, template_format |-> None,
     template_vars_file |-> None, template_vars |-> None]

IdleParam ==
    /\ run_args = NoArgs
    /\ param_pc = "idle"
    /\ branch = "none"
    /\ param_error = NoRunError

ClassifyInit ==
    /\ exc \in Exceptions
    /\ r_openai = "unset"
    /\ r_azure = "unset"
    /\ r_network = "unset"
    /\ IdleRetry
    /\ IdleSched
    /\ entry = "none"
    /\ IdleChat
    /\ IdleRun
    /\ IdleSchema
    /\ IdleTask
    /\ IdleSk
    /\ IdleParam

CallOpenAI ==
    /\ exc # NoExc
    /\ r_openai = "unset"
    /\ r_openai' = Verdict(should_retry_openai_exception(exc))
    /\ UNCHANGED <<exc, r_azure, r_network>>
    /\ UNCHANGED notClassifyVars

CallAzure ==
    /\ exc # NoExc
    /\ r_azure = "unset"
    /\ r_azure' = Verdict(should_retry_azure_exception(exc))
    /\ UNCHANGED <<exc, r_openai, r_network>>
    /\ UNCHANGED notClassifyVars

CallNetwork ==
    /\ exc # NoExc
    /\ r_network = "unset"
    /\ r_network' = Verdict(should_retry_network_exception(exc))
    /\ UNCHANGED <<exc, r_openai, r_azure>>
    /\ UNCHANGED notClassifyVars

ClassifyNext == CallOpenAI \/ CallAzure \/ CallNetwork

ClassifySpec == ClassifyInit /\ [][ClassifyNext]_vars

---------------------------------------------------------------------------
(* retry_network_operation: the tenacity retry loop around one invocation  *)
(* of a network operation.                                                 *)

(* retry=retry_if_exception(should_retry_network_exception) *)
retry_if_exception_Always(e) == TRUE

retry_if_exception_RetryCancelled(e) ==
    \/ should_retry_network_exception(e)
    \/ e.cls \in {"KeyboardInterrupt", "CancelledError"}

retry_if_exception(e) == should_retry_network_exception(e)

(* stop=stop_after_attempt(DEFAULT_MAX_RETRIES) *)
stop_after_attempt_Greater(n) == n > DEFAULT_MAX_RETRIES

stop_after_attempt_Early(n) == n + 1 >= DEFAULT_MAX_RETRIES

stop_after_attempt(n) == n >= DEFAULT_MAX_RETRIES

(* reraise=True: on exhaustion the last attempt's own error is raised,     *)
(* not a RetryError wrapping it.                                           *)
RetryError == [cls |-> "RetryError", status |-> Absent]

reraise == TRUE

exhausted_error_Wrapped(e) == RetryError

exhausted_error(e) == IF reraise THEN e ELSE RetryError

(* wait=wait_random_exponential(multiplier, min, max), in whole seconds:   *)
(* a random value between min and the exponential bound for the attempt.   *)
RECURSIVE Pow2(_)
Pow2(n) == IF n <= 0 THEN 1 ELSE 2 * Pow2(n - 1)

Max(a, b) == IF a >= b THEN a ELSE b
Min(a, b) == IF a <= b THEN a ELSE b

wait_exponential_Uncapped(n) ==
    Max(Max(0, DEFAULT_MIN_WAIT), DEFAULT_EXPONENTIAL_MULTIPLIER * Pow2(n - 1))

wait_exponential(n) ==
    Max(Max(0, DEFAULT_MIN_WAIT),
        Min(DEFAULT_EXPONENTIAL_MULTIPLIER * Pow2(n - 1), DEFAULT_MAX_WAIT))

wait_random_exponential(n) == DEFAULT_MIN_WAIT..wait_exponential(n)

RetryInit ==
    /\ IdleClassify
    /\ IdleRetry
    /\ IdleSched
    /\ entry = "none"
    /\ IdleChat
    /\ IdleRun
    /\ IdleSchema
    /\ IdleTask
    /\ IdleSk
    /\ IdleParam

(* The wrapped operation is invoked: the first attempt begins. *)
Invoke ==
    /\ exc = NoExc
    /\ pc = "idle"
    /\ pc' = "attempting"
    /\ attempt_number' = 1
    /\ UNCHANGED <<calls, history, lastExc, raised, wait>>
    /\ UNCHANGED notRetryVars

(* The call of this attempt returns a result. *)
AttemptReturns ==
    /\ pc = "attempting"
    /\ calls' = calls + 1
    /\ history' = Append(history, "ok")
    /\ pc' = "success"
    /\ UNCHANGED <<attempt_number, lastExc, raised, wait>>
    /\ UNCHANGED notRetryVars

(* The call of this attempt raises e: the error is passed on when it is    *)
(* not to be retried or when the attempts are used up, else the loop       *)
(* sleeps before the next attempt.                                         *)
AttemptRaises ==
    /\ pc = "attempting"
    /\ \E e \in BackendErrors :
        /\ calls' = calls + 1
        /\ history' = Append(history, e.cls)
        /\ lastExc' = e
        /\ IF ~retry_if_exception(e)
           THEN /\ pc' = "failed"
                /\ raised' = e
                /\ wait' = wait
           ELSE IF stop_after_attempt(attempt_number)
           THEN /\ pc' = "failed"
                /\ raised' = exhausted_error(e)
                /\ wait' = wait
           ELSE /\ pc' = "waiting"
                /\ raised' = raised
                /\ wait' \in wait_random_exponential(attempt_number)
    /\ UNCHANGED attempt_number
    /\ UNCHANGED notRetryVars

(* The sleep ends and the next attempt begins. *)
NextAttempt ==
    /\ pc = "waiting"
    /\ attempt_number' = attempt_number + 1
    /\ pc' = "attempting"
    /\ UNCHANGED <<calls, history, lastExc, raised, wait>>
    /\ UNCHANGED notRetryVars

RetryNext == Invoke \/ AttemptReturns \/ AttemptRaises \/ NextAttempt

RetrySpec == RetryInit /\ [][RetryNext]_vars

(* The loop under cancellation.  A KeyboardInterrupt or CancelledError     *)
(* raised inside the call is an outcome of the attempt like any other      *)
(* exception (AttemptRaises); one raised while the loop sleeps is raised   *)
(* outside every attempt and leaves the loop at once.                      *)
Cancellations == {"KeyboardInterrupt", "CancelledError"}

CancelWait ==
    /\ pc = "waiting"
    /\ \E c \in Cancellations :
          raised' = [cls |-> c, status |-> Absent]
    /\ pc' = "failed"
    /\ UNCHANGED <<attempt_number, calls, history, lastExc, wait>>
    /\ UNCHANGED notRetryVars

CancelNext == RetryNext \/ CancelWait

CancelSpec == RetryInit /\ [][CancelNext]_vars

---------------------------------------------------------------------------
(* The backoff schedule asked for the wait after attempt n.                *)

ScheduleInit ==
    /\ IdleClassify
    /\ IdleRetry
    /\ sched_n \in 1..MaxScheduleAttempt
    /\ sched_wait = 0
    /\ entry = "none"
    /\ IdleChat
    /\ IdleRun
    /\ IdleSchema
    /\ IdleTask
    /\ IdleSk
    /\ IdleParam

ScheduleWait ==
    /\ sched_n >= 1
    /\ sched_wait = 0
    /\ sched_wait' \in wait_random_exponential(sched_n)
    /\ UNCHANGED sched_n
    /\ UNCHANGED notSchedVars

ScheduleNext == ScheduleWait

ScheduleSpec == ScheduleInit /\ [][ScheduleNext]_vars

---------------------------------------------------------------------------
(* create_chat_history (src/llm_runner.py) and the conversation both entry *)
(* points hand to the execution step.                                      *)

EntryPoints == {"llm_runner", "core"}

(* A key the dictionary does not have; also None for an optional value. *)
MISSING == "<missing>"

(* semantic_kernel's AuthorRole enumeration. *)
AuthorRole == {"system", "user", "assistant", "tool"}

(* The message dictionaries the input file can hold. *)
InputRoles == {"system", "user", "bogus", MISSING}
InputContents == {"hi", "yo", MISSING}
InputNames == {"dev", MISSING}
RawMessages == [role : InputRoles, content : InputContents, name : InputNames]
MessageLists == UNION {[1..n -> RawMessages] : n \in 1..MaxMessages}

(* if "role" not in msg or "content" not in msg *)
missing_field(msg) == msg.role = MISSING \/ msg.content = MISSING

(* AuthorRole(msg["role"]) raises ValueError *)
invalid_role(msg) == msg.role \notin AuthorRole

(* The error as it leaves create_chat_history; the index is the i of the   *)
(* f-string "... message {i} ...".                                         *)
InputValidationError_OneBased(prefix, i, detail) ==
    [cls |-> "InputValidationError", prefix |-> prefix, index |-> i + 1,
     detail |-> detail]

InputValidationError(prefix, i, detail) ==
    [cls |-> "InputValidationError", prefix |-> prefix, index |-> i,
     detail |-> detail]

(* ChatMessageContent(role=AuthorRole(msg["role"]), content=msg["content"], *)
(* name=msg.get("name"))                                                    *)
ChatMessageContent(msg) ==
    [role |-> msg.role, content |-> msg.content, name |-> msg.name]

(* core.py: the dictionaries built from a ChatHistory have the keys "role" *)
(* and "content" only.                                                     *)
convert_chat_history_to_list(h) ==
    [k \in 1..Len(h) |->
        [role |-> h[k].role, content |-> h[k].content, name |-> MISSING]]

ChatInit ==
    /\ IdleClassify
    /\ IdleRetry
    /\ IdleSched
    /\ entry \in EntryPoints
    /\ messages \in MessageLists
    /\ msg_i = 0
    /\ chat_history = <<>>
    /\ chat_error = NoChatError
    /\ conversation = <<>>
    /\ chat_pc = "building"
    /\ IdleRun
    /\ IdleSchema
    /\ IdleTask
    /\ IdleSk
    /\ IdleParam

(* One iteration of the loop that adds the message. *)
AddMessage ==
    /\ chat_pc = "building"
    /\ msg_i < Len(messages)
    /\ LET msg == messages[msg_i + 1] IN
        /\ ~missing_field(msg)
        /\ ~invalid_role(msg)
        /\ chat_history' = Append(chat_history, ChatMessageContent(msg))
    /\ msg_i' = msg_i + 1
    /\ UNCHANGED <<messages, chat_error, conversation, chat_pc>>
    /\ UNCHANGED notChatVars

(* One iteration of the loop that raises: the InputValidationError of the  *)
(* field check is caught by "except Exception" and raised again with the   *)
(* same i; the ValueError of AuthorRole is caught by "except ValueError".  *)
RejectMessage ==
    /\ chat_pc = "building"
    /\ msg_i < Len(messages)
    /\ LET msg == messages[msg_i + 1] IN
        /\ missing_field(msg) \/ invalid_role(msg)
        /\ chat_error' =
              IF missing_field(msg)
              THEN InputValidationError("Error processing message", msg_i,
                                        "missing required 'role' or 'content' field")
              ELSE InputValidationError("Invalid role in message", msg_i,
                                        msg.role)
    /\ chat_pc' = "failed"
    /\ UNCHANGED <<messages, msg_i, chat_history, conversation>>
    /\ UNCHANGED notChatVars

(* The loop is over: return chat_history. *)
ReturnChatHistory ==
    /\ chat_pc = "building"
    /\ msg_i = Len(messages)
    /\ chat_pc' = "built"
    /\ UNCHANGED <<messages, msg_i, chat_history, chat_error, conversation>>
    /\ UNCHANGED notChatVars

(* llm_runner.main passes the ChatHistory to execute_llm_task;             *)
(* core.process_input_file converts it before run_llm_task passes it on.   *)
HandToExecution ==
    /\ chat_pc = "built"
    /\ conversation' = IF entry = "core"
                       THEN convert_chat_history_to_list(chat_history)
                       ELSE chat_history
    /\ chat_pc' = "handed"
    /\ UNCHANGED <<messages, msg_i, chat_history, chat_error>>
    /\ UNCHANGED notChatVars

ChatNext ==
    \/ AddMessage
    \/ RejectMessage
    \/ ReturnChatHistory
    \/ HandToExecution

ChatSpec == ChatInit /\ [][ChatNext]_vars

---------------------------------------------------------------------------
(* One run of the program: llm_runner.main (src/llm_runner.py), and        *)
(* core.main calling run_llm_task (src/llm_ci_runner/core.py).             *)

Str(t) == [kind |-> "str", text |-> t, items |-> {}]

(* str(value) *)
str(v) == [kind |-> "str", text |-> v.text, items |-> {}]

(* One entry of a dict: a number (in tenths) or a string under a key. *)
NumItem(k, n) == [key |-> k, num |-> n, str |-> ""]
StrItem(k, t) == [key |-> k, num |-> 0, str |-> t]

(* What the service can answer with. *)
Contents ==
    {"hello",
     "{\"confidence\": 0.5",
     "{\"confidence\": 0.5}",
     "{\"confidence\": 1.5}",
     "{\"sentiment\": \"neutral\", \"confidence\": 0.9}",
     "[1, 2]",
     "42"}

(* The exceptions the service call is seen to raise. *)
BackendExceptions == {"APIConnectionError", "ValueError"}

(* The service's answer: an exception, or a message with a content. *)
Answers ==
    [raises : BackendExceptions, content : {""}]
        \cup [raises : {"none"}, content : Contents]

(* json.loads(content); kind "JSONDecodeError" stands for the exception. *)
json_loads(c) ==
    CASE c = "{\"confidence\": 0.5}" ->
            [kind |-> "dict", text |-> "{'confidence': 0.5}",
             items |-> {NumItem("confidence", 5)}]
      [] c = "{\"confidence\": 1.5}" ->
            [kind |-> "dict", text |-> "{'confidence': 1.5}",
             items |-> {NumItem("confidence", 15)}]
      [] c = "{\"sentiment\": \"neutral\", \"confidence\": 0.9}" ->
            [kind |-> "dict",
             text |-> "{'sentiment': 'neutral', 'confidence': 0.9}",
             items |-> {StrItem("sentiment", "neutral"),
                        NumItem("confidence", 9)}]
      [] c = "[1, 2]" -> [kind |-> "list", text |-> "[1, 2]", items |-> {}]
      [] c = "42" -> [kind |-> "int", text |-> "42", items |-> {}]
      [] c = "true" -> [kind |-> "bool", text |-> "True", items |-> {}]
      [] c = "null" -> [kind |-> "NoneType", text |-> "None", items |-> {}]
      [] OTHER -> [kind |-> "JSONDecodeError", text |-> c, items |-> {}]

(* How a function ends: it returns a value or raises. *)
Returns(v) == [value |-> v, error |-> NoRunError]
Raises(cls, msg) == [value |-> NoValue, error |-> [cls |-> cls, message |-> msg]]

(* llm_runner.execute_llm_task, given the answer of the one call of        *)
(* service.get_chat_message_contents: with a schema model the content is   *)
(* parsed, and len() and .keys() are applied to the parsed value for the   *)
(* log; without one the content is the response.                           *)
execute_llm_task_TextFallback(schema, answer) ==
    IF answer.raises # "none"
    THEN Raises("LLMExecutionError", "LLM execution failed")
    ELSE IF schema # "none" /\ json_loads(answer.content).kind = "dict"
    THEN Returns(json_loads(answer.content))
    ELSE Returns(Str(answer.content))

execute_llm_task_AlwaysParse(schema, answer) ==
    IF answer.raises # "none"
    THEN Raises("LLMExecutionError", "LLM execution failed")
    ELSE LET parsed == json_loads(answer.content) IN
         CASE parsed.kind = "JSONDecodeError" ->
                Raises("LLMExecutionError",
                       "Schema enforcement failed - invalid JSON returned")
           [] parsed.kind = "dict" -> Returns(parsed)
           [] OTHER -> Raises("LLMExecutionError", "LLM execution failed")

(* The try block of execute_llm_task: what it returns or raises before    *)
(* the except clauses.  A content of None has no len().                    *)
execute_llm_task_body(schema, answer) ==
    IF answer.raises # "none"
    THEN Raises(answer.raises, "Service error")
    ELSE IF answer.content = MISSING
    THEN Raises("TypeError", "object of type 'NoneType' has no len()")
    ELSE IF schema # "none"
    THEN LET parsed == json_loads(answer.content) IN
         CASE parsed.kind = "JSONDecodeError" ->
                Raises("LLMExecutionError",
                       "Schema enforcement failed - invalid JSON returned")
           [] parsed.kind = "dict" -> Returns(parsed)
           [] parsed.kind = "list" ->
                Raises("AttributeError", "'list' object has no attribute 'keys'")
           [] OTHER -> Raises("TypeError", "object has no len()")
    ELSE Returns(Str(answer.content))

(* Exceptions that are no subclass of Exception. *)
BaseExceptionsOnly == {"KeyboardInterrupt", "CancelledError"}

(* except LLMExecutionError: raise                                         *)
(* except Exception as e: raise LLMExecutionError("LLM execution failed")  *)
except_clauses_WrapAll(r) ==
    IF r.error.cls = "none" \/ r.error.cls \in BaseExceptionsOnly
    THEN r
    ELSE Raises("LLMExecutionError", "LLM execution failed")

except_clauses(r) ==
    IF r.error.cls \in {"none", "LLMExecutionError"}
          \/ r.error.cls \in BaseExceptionsOnly
    THEN r
    ELSE Raises("LLMExecutionError", "LLM execution failed")

execute_llm_task(schema, answer) ==
    except_clauses(execute_llm_task_body(schema, answer))

(* What kernel.invoke(template, sk_arguments) gives, by the shape the      *)
(* extraction tells apart: the call raises; the result is None; its value  *)
(* is a non-empty list whose first element has a content attribute         *)
(* ("value") or has none ("value_no_content"); it has no value, or an      *)
(* empty one, but a content attribute ("content"); or neither ("other").   *)
(* content is the content attribute (MISSING: None), text is what str()    *)
(* makes of the object without a content attribute.                        *)
KernelResult(shape, c, t, e) ==
    [shape |-> shape, content |-> c, text |-> t, raises |-> e]

(* The result of kernel.invoke when the backend gives this answer: a       *)
(* FunctionResult whose value holds one ChatMessageContent.                *)
FunctionResult(answer) ==
    IF answer.raises # "none"
    THEN KernelResult("raises", "", "", answer.raises)
    ELSE KernelResult("value", answer.content, "", "none")

(* str(chat_content.content) *)
str_content(c) == IF c = MISSING THEN "None" ELSE c

(* content = str(....content); response = json.loads(content), and on      *)
(* JSONDecodeError or ValueError the template's requirement decides.       *)
parse_content(requires, c) ==
    LET parsed == json_loads(str_content(c)) IN
    IF parsed.kind # "JSONDecodeError"
    THEN Returns(parsed)
    ELSE IF requires
    THEN Raises("SchemaValidationError",
                "SK template requires JSON output but received invalid JSON")
    ELSE Returns(Str(str_content(c)))

(* core.process_sk_yaml_template up to the write. *)
process_sk_yaml_template(requires, result) ==
    CASE result.shape = "raises" -> Raises(result.raises, "")
      [] result.shape = "value" -> parse_content(requires, result.content)
      [] result.shape = "value_no_content" -> Returns(Str(result.text))
      [] result.shape = "content" -> parse_content(requires, result.content)
      [] result.shape = "None" -> Returns(Str(""))
      [] OTHER -> Returns(Str(result.text))

(* core.process_sk_yaml_template_with_vars up to the write: there is no    *)
(* branch for a result that has only a content attribute.                  *)
process_sk_yaml_template_with_vars(requires, result) ==
    CASE result.shape = "raises" -> Raises(result.raises, "")
      [] result.shape = "value" -> parse_content(requires, result.content)
      [] result.shape = "value_no_content" -> Returns(Str(result.text))
      [] result.shape = "None" -> Returns(Str(""))
      [] OTHER -> Returns(Str(result.text))

(* The schema of the runs with a schema file: a required number           *)
(* "confidence" with minimum 0 and maximum 1.                              *)
schema_accepts(v) ==
    /\ v.kind = "dict"
    /\ \E it \in v.items :
          it.key = "confidence" /\ it.str = "" /\ 0 <= it.num /\ it.num <= 10

(* llm_ci_runner.llm_execution.execute_llm_task, as core.py uses it: it    *)
(* returns a dict with "output" and "mode", or raises.  With a schema the  *)
(* content must parse and satisfy the schema; without one a content that   *)
(* does not parse is text.                                                 *)
Result(v, m) == [output |-> v, mode |-> m, error |-> NoRunError]
NoResult(cls, msg) ==
    [output |-> NoValue, mode |-> "", error |-> [cls |-> cls, message |-> msg]]

llm_execution_execute_llm_task(schema, answer) ==
    IF answer.raises # "none"
    THEN NoResult("LLMExecutionError", "LLM execution failed")
    ELSE LET parsed == json_loads(answer.content) IN
         IF schema # "none"
         THEN IF parsed.kind = "JSONDecodeError" \/ ~schema_accepts(parsed)
              THEN NoResult("SchemaValidationError", "Schema validation failed")
              ELSE Result(parsed, "structured")
         ELSE IF parsed.kind = "JSONDecodeError"
              THEN Result(Str(answer.content), "text")
              ELSE Result(parsed, "structured")

(* core.execute_llm_with_chat_history: the response taken from the result. *)
extract_response_AlwaysStr(result) == str(result.output)

extract_response(result) ==
    IF result.mode = "structured"
    THEN result.output
    ELSE str(result.output)

(* What can happen to the file system while the output is written. *)
WriteConditions == {"ok", "mkdir_fails", "open_fails", "dump_fails"}

(* llm_runner.write_output_file: the directory is made, the file is opened *)
(* for writing and json.dump writes into the open file; every exception    *)
(* becomes an LLMRunnerError.  file is the state the file is left in.      *)
write_output_file(v, io) ==
    CASE io = "ok" ->
            [file |-> "complete", opened |-> 1, written |-> v,
             error |-> NoRunError]
      [] io = "dump_fails" ->
            [file |-> "partial", opened |-> 1, written |-> NoValue,
             error |-> [cls |-> "LLMRunnerError",
                        message |-> "Error writing output file"]]
      [] OTHER ->
            [file |-> "absent", opened |-> 0, written |-> NoValue,
             error |-> [cls |-> "LLMRunnerError",
                        message |-> "Error writing output file"]]

(* llm_ci_runner.io_operations.write_output_file behind                    *)
(* core._write_output_if_specified: the file appears whole or not at all.  *)
CoreWriteConditions == {"no_output_file", "ok", "fails"}

write_output_if_specified(v, io) ==
    CASE io = "ok" ->
            [file |-> "complete", opened |-> 1, written |-> v,
             error |-> NoRunError]
      [] io = "no_output_file" ->
            [file |-> "absent", opened |-> 0, written |-> NoValue,
             error |-> NoRunError]
      [] OTHER ->
            [file |-> "absent", opened |-> 0, written |-> NoValue,
             error |-> [cls |-> "LLMRunnerError",
                        message |-> "Error writing output file"]]

(* The exit code main ends the process with: llm_runner.main calls         *)
(* sys.exit(1) in each of its three handlers; core.main calls              *)
(* sys.exit(130) for KeyboardInterrupt and sys.exit(1) otherwise.          *)
main_exit_code(e, err) ==
    IF err.cls = "none" THEN 0
    ELSE IF e = "core" /\ err.cls = "KeyboardInterrupt" THEN 130
    ELSE 1

(* llm_runner.setup_azure_service under each state of the environment:    *)
(* the credential it leaves and the exception it raises.  The credential   *)
(* is created before the service object, is handed to it as the token      *)
(* provider and is not returned.                                           *)
AzureAuth ==
    {"no_endpoint", "api_key", "api_key_fails",
     "rbac", "rbac_credential_fails", "rbac_service_fails"}

setup_azure_service(auth) ==
    [credential |-> IF auth \in {"rbac", "rbac_service_fails"}
                    THEN "open" ELSE "none",
     service |-> IF auth \in {"api_key", "rbac"} THEN "ready" ELSE "none",
     error |-> IF auth \in {"api_key", "rbac"}
               THEN NoRunError
               ELSE [cls |-> "AuthenticationError",
                     message |-> "Error setting up Azure service"]]

(* The schema files a run can be given. *)
SchemaFiles == {"no_file", "model", "invalid_file", "invalid_schema"}

(* The statements of the try blocks, where an exception can be raised. *)
TryBody ==
    {"load_input", "create_chat_history", "setup_service", "load_schema",
     "process_input", "load_template", "execute", "write"}

(* What no statement but the named ones changes. *)
runFiles == <<out_file, out_response, writes>>
runCall == <<backend_calls, content, response>>
runInputs == <<run_mode, schema_file, schema_model, requires_json>>
runResources == <<credential, service, close_calls>>

(* An exception leaves the try block: run_llm_task's finally runs first in *)
(* core, main's handlers are next in llm_runner.                           *)
Fail(err) ==
    /\ run_error' = err
    /\ run_pc' = IF entry = "core" THEN "finally" ELSE "handlers"

Step(next) ==
    /\ run_pc' = next
    /\ UNCHANGED run_error

RunInit ==
    /\ IdleClassify
    /\ IdleRetry
    /\ IdleSched
    /\ IdleChat
    /\ IdleSchema
    /\ IdleTask
    /\ IdleSk
    /\ IdleParam
    /\ entry \in EntryPoints
    /\ run_mode \in IF entry = "core"
                    THEN {"input_file", "sk_template"}
                    ELSE {"input_file"}
    /\ run_pc = IF entry = "core" THEN "setup_service" ELSE "load_input"
    /\ credential = "none"
    /\ service = "none"
    /\ close_calls = 0
    /\ schema_file \in SchemaFiles
    /\ schema_model = "none"
    /\ requires_json = FALSE
    /\ backend_calls = 0
    /\ content = ""
    /\ response = NoValue
    /\ run_error = NoRunError
    /\ out_file = "absent"
    /\ out_response = NoValue
    /\ writes = 0
    /\ exit_code = 0 - 1

(* llm_runner.main: input_data = load_input_json(args.input_file) *)
LoadInputJson ==
    /\ run_pc = "load_input"
    /\ \E ok \in BOOLEAN :
          IF ok
          THEN Step("create_chat_history")
          ELSE Fail([cls |-> "InputValidationError",
                     message |-> "Input file not found or without messages"])
    /\ UNCHANGED <<runResources, exit_code, runInputs, runCall, runFiles>>
    /\ UNCHANGED notRunVars

(* llm_runner.main: chat_history = create_chat_history(...) *)
CreateChatHistory ==
    /\ run_pc = "create_chat_history"
    /\ \E ok \in BOOLEAN :
          IF ok
          THEN Step("setup_service")
          ELSE Fail([cls |-> "InputValidationError",
                     message |-> "Error processing message"])
    /\ UNCHANGED <<runResources, exit_code, runInputs, runCall, runFiles>>
    /\ UNCHANGED notRunVars

(* llm_runner.main: service = await setup_azure_service() *)
SetupAzureService ==
    /\ run_pc = "setup_service"
    /\ entry = "llm_runner"
    /\ \E auth \in AzureAuth :
          LET r == setup_azure_service(auth) IN
          /\ credential' = r.credential
          /\ service' = r.service
          /\ IF r.error.cls = "none"
             THEN Step("load_schema")
             ELSE Fail(r.error)
    /\ UNCHANGED <<close_calls, exit_code, runInputs, runCall, runFiles>>
    /\ UNCHANGED notRunVars

(* core.run_llm_task: service, credential = await setup_llm_service() *)
SetupLLMService ==
    /\ run_pc = "setup_service"
    /\ entry = "core"
    /\ \E outcome \in {"api_key", "rbac", "fails"} :
          /\ credential' = IF outcome = "rbac" THEN "open" ELSE "none"
          /\ service' = IF outcome # "fails" THEN "ready" ELSE "none"
          /\ IF outcome # "fails"
             THEN Step("load_schema")
             ELSE Fail([cls |-> "AuthenticationError",
                        message |-> "Error setting up LLM service"])
    /\ UNCHANGED <<close_calls, exit_code, runInputs, runCall, runFiles>>
    /\ UNCHANGED notRunVars

(* load_json_schema(schema_file): None without a file, the model of a     *)
(* valid one; InputValidationError for a file that is missing or not JSON, *)
(* SchemaValidationError when no model can be made of the document.        *)
load_json_schema_Lenient(f) ==
    [model |-> IF f = "model" THEN "model" ELSE "none", error |-> NoRunError]

load_json_schema(f) ==
    [model |-> IF f = "model" THEN "model" ELSE "none",
     error |-> CASE f = "invalid_file" ->
                      [cls |-> "InputValidationError",
                       message |-> "Schema file not found or invalid JSON"]
                 [] f = "invalid_schema" ->
                      [cls |-> "SchemaValidationError",
                       message |-> "Failed to create dynamic model"]
                 [] OTHER -> NoRunError]

(* llm_runner.main: schema_model = load_json_schema(args.schema_file);     *)
(* core.run_llm_task: schema_result = load_schema_file(...)                *)
LoadJsonSchema ==
    /\ run_pc = "load_schema"
    /\ LET r == load_json_schema(schema_file) IN
       /\ schema_model' = r.model
       /\ IF r.error.cls = "none"
          THEN Step(IF entry = "llm_runner" THEN "execute"
                    ELSE IF run_mode = "input_file" THEN "process_input"
                    ELSE "load_template")
          ELSE Fail(r.error)
    /\ UNCHANGED <<runResources, exit_code, run_mode, schema_file,
                   requires_json, runCall, runFiles>>
    /\ UNCHANGED notRunVars

(* core.run_llm_task: chat_history = await process_input_file(input_file) *)
ProcessInputFile ==
    /\ run_pc = "process_input"
    /\ \E ok \in BOOLEAN :
          IF ok
          THEN Step("execute")
          ELSE Fail([cls |-> "InputValidationError",
                     message |-> "Invalid input file"])
    /\ UNCHANGED <<runResources, exit_code, runInputs, runCall, runFiles>>
    /\ UNCHANGED notRunVars

(* core.run_llm_task: template = load_template(Path(template_file)); the   *)
(* template's execution settings decide whether it requires JSON.          *)
LoadTemplate ==
    /\ run_pc = "load_template"
    /\ \E ok \in BOOLEAN, req \in BOOLEAN :
          IF ok
          THEN /\ requires_json' = req
               /\ Step("execute")
          ELSE /\ UNCHANGED requires_json
               /\ Fail([cls |-> "InputValidationError",
                        message |-> "Invalid template file"])
    /\ UNCHANGED <<runResources, exit_code, run_mode, schema_file,
                   schema_model, runCall, runFiles>>
    /\ UNCHANGED notRunVars

(* llm_runner.main: response = await execute_llm_task(...) *)
ExecuteLLMTask ==
    /\ run_pc = "execute"
    /\ entry = "llm_runner"
    /\ \E answer \in Answers :
          LET r == execute_llm_task(schema_model, answer) IN
          /\ backend_calls' = backend_calls + 1
          /\ content' = answer.content
          /\ response' = r.value
          /\ IF r.error.cls = "none"
             THEN Step("write")
             ELSE Fail(r.error)
    /\ UNCHANGED <<runResources, exit_code, runInputs, runFiles>>
    /\ UNCHANGED notRunVars

(* What a function of core.py that ends with _write_output_if_specified    *)
(* leaves: r is what came before the write, v the response to write.       *)
WriteAndReturn(r_error, v, io) ==
    LET w == write_output_if_specified(v, io) IN
    IF r_error.cls # "none"
    THEN /\ Fail(r_error)
         /\ UNCHANGED <<response, runFiles>>
    ELSE /\ out_file' = w.file
         /\ out_response' = w.written
         /\ writes' = writes + w.opened
         /\ IF w.error.cls = "none"
            THEN /\ response' = v
                 /\ Step("finally")
            ELSE /\ UNCHANGED response
                 /\ Fail(w.error)

(* core.run_llm_task: response = await execute_llm_with_chat_history(...) *)
ExecuteLLMWithChatHistory ==
    /\ run_pc = "execute"
    /\ entry = "core"
    /\ run_mode = "input_file"
    /\ \E answer \in Answers, io \in CoreWriteConditions :
          LET result == llm_execution_execute_llm_task(schema_model, answer) IN
          /\ backend_calls' = backend_calls + 1
          /\ content' = answer.content
          /\ WriteAndReturn(result.error, extract_response(result), io)
    /\ UNCHANGED <<runResources, exit_code, runInputs>>
    /\ UNCHANGED notRunVars

(* core.run_llm_task: response = await process_sk_yaml_template(...) *)
ProcessSkYamlTemplate ==
    /\ run_pc = "execute"
    /\ entry = "core"
    /\ run_mode = "sk_template"
    /\ \E answer \in Answers, io \in CoreWriteConditions :
          LET r == process_sk_yaml_template(requires_json, FunctionResult(answer)) IN
          /\ backend_calls' = backend_calls + 1
          /\ content' = answer.content
          /\ WriteAndReturn(r.error, r.value, io)
    /\ UNCHANGED <<runResources, exit_code, runInputs>>
    /\ UNCHANGED notRunVars

(* llm_runner.main: write_output_file(args.output_file, response) *)
WriteOutputFile ==
    /\ run_pc = "write"
    /\ \E io \in WriteConditions :
          LET w == write_output_file(response, io) IN
          /\ out_file' = w.file
          /\ out_response' = w.written
          /\ writes' = writes + w.opened
          /\ IF w.error.cls = "none"
             THEN Step("handlers")
             ELSE Fail(w.error)
    /\ UNCHANGED <<runResources, exit_code, runInputs, runCall>>
    /\ UNCHANGED notRunVars

(* What await credential.close() does: it returns, or raises an error. *)
CloseOutcomes == {"closed", "ClientAuthenticationError", "RuntimeError"}

finally_clause_Propagate(cred, close, err) ==
    IF cred = "none"
    THEN [credential |-> cred, calls |-> 0, error |-> err]
    ELSE IF close = "closed"
    THEN [credential |-> "closed", calls |-> 1, error |-> err]
    ELSE [credential |-> cred, calls |-> 1,
          error |-> [cls |-> close, message |-> "close failed"]]

(* core.run_llm_task, the finally block: if credential is not None, close  *)
(* is awaited inside try / except Exception, and the handler only logs.    *)
(* err is the error that travels through the block (NoRunError when the    *)
(* body returned).                                                         *)
finally_clause(cred, close, err) ==
    IF cred = "none"
    THEN [credential |-> cred, calls |-> 0, error |-> err]
    ELSE IF close = "closed"
    THEN [credential |-> "closed", calls |-> 1, error |-> err]
    ELSE [credential |-> cred, calls |-> 1, error |-> err]

CloseCredential ==
    /\ run_pc = "finally"
    /\ \E close \in CloseOutcomes :
          LET f == finally_clause(credential, close, run_error) IN
          /\ credential' = f.credential
          /\ close_calls' = close_calls + f.calls
          /\ run_error' = f.error
    /\ run_pc' = "handlers"
    /\ UNCHANGED <<service, exit_code, runInputs, backend_calls, content,
                   response, runFiles>>
    /\ UNCHANGED notRunVars

(* KeyboardInterrupt raised in a statement of the try block. *)
Interrupt ==
    /\ run_pc \in TryBody
    /\ Fail([cls |-> "KeyboardInterrupt", message |-> ""])
    /\ UNCHANGED <<runResources, exit_code, runInputs, runCall, runFiles>>
    /\ UNCHANGED notRunVars

(* main returns, or one of its handlers calls sys.exit. *)
Exit ==
    /\ run_pc = "handlers"
    /\ exit_code' = main_exit_code(entry, run_error)
    /\ run_pc' = "exited"
    /\ UNCHANGED <<runResources, run_error, runInputs, runCall, runFiles>>
    /\ UNCHANGED notRunVars

RunNext ==
    \/ LoadInputJson
    \/ CreateChatHistory
    \/ SetupAzureService
    \/ SetupLLMService
    \/ LoadJsonSchema
    \/ ProcessInputFile
    \/ LoadTemplate
    \/ ExecuteLLMTask
    \/ ExecuteLLMWithChatHistory
    \/ ProcessSkYamlTemplate
    \/ WriteOutputFile
    \/ CloseCredential
    \/ Interrupt
    \/ Exit

RunSpec == RunInit /\ [][RunNext]_vars

---------------------------------------------------------------------------
(* create_dynamic_model_from_schema (src/llm_ci_runner/schema.py).         *)

(* The property names field1..fieldN. *)
FieldNames == 1..MaxFields

(* Schema documents: a string instead of a dictionary, or a dictionary of  *)
(* type object with properties, a required list, and possibly a $ref that  *)
(* is defined in the document or is not.                                   *)
SchemaDicts ==
    [shape : {"str", "dict"}, properties : SUBSET FieldNames,
     required : SUBSET FieldNames, ref : {"none", "defined", "undefined"}]

(* json_schema_to_pydantic.create_model as the unit tests of schema.py pin *)
(* it down: it raises for a document that is no dictionary and for a       *)
(* reference it cannot resolve; the model has one field per property, and  *)
(* a field is required when its name is in the required list.              *)
create_model_from_schema_RequiredAsListed(d) ==
    IF d.shape # "dict" \/ d.ref = "undefined"
    THEN [status |-> "error", fields |-> {}, required |-> {}]
    ELSE [status |-> "model", fields |-> d.properties, required |-> d.required]

create_model_from_schema(d) ==
    IF d.shape # "dict" \/ d.ref = "undefined"
    THEN [status |-> "error", fields |-> {}, required |-> {}]
    ELSE [status |-> "model", fields |-> d.properties,
          required |-> {f \in d.properties : f \in d.required}]

(* try: return create_model_from_schema(...); except Exception: raise      *)
(* SchemaValidationError("Failed to create dynamic model: ...")            *)
create_dynamic_model_from_schema(d) ==
    LET m == create_model_from_schema(d) IN
    IF m.status = "error"
    THEN [status |-> "SchemaValidationError", fields |-> {}, required |-> {}]
    ELSE m

SchemaInit ==
    /\ IdleClassify
    /\ IdleRetry
    /\ IdleSched
    /\ entry = "none"
    /\ IdleChat
    /\ IdleRun
    /\ IdleTask
    /\ IdleSk
    /\ IdleParam
    /\ schema_dict \in SchemaDicts
    /\ dynamic_model = NoModel

CreateDynamicModel ==
    /\ dynamic_model = NoModel
    /\ dynamic_model' = create_dynamic_model_from_schema(schema_dict)
    /\ UNCHANGED schema_dict
    /\ UNCHANGED notSchemaVars

SchemaNext == CreateDynamicModel

SchemaSpec == SchemaInit /\ [][SchemaNext]_vars

---------------------------------------------------------------------------
(* llm_runner.execute_llm_task called on its own, with a service that is   *)
(* prepared like a mock: side_effect[k] is what its k-th call does.        *)

TaskExceptions ==
    {"ConnectionError", "Exception", "LLMExecutionError",
     "KeyboardInterrupt", "CancelledError"}

TaskAnswers ==
    [raises : TaskExceptions, content : {""}]
        \cup [raises : {"none"}, content : Contents \cup {MISSING}]

SideEffects == UNION {[1..n -> TaskAnswers] : n \in 1..MaxSideEffects}

TaskInit ==
    /\ IdleClassify
    /\ IdleRetry
    /\ IdleSched
    /\ entry = "none"
    /\ IdleChat
    /\ IdleRun
    /\ IdleSchema
    /\ IdleSk
    /\ IdleParam
    /\ side_effect \in SideEffects
    /\ task_schema \in {"none", "model"}
    /\ call_count = 0
    /\ task_outcome = NotCalled

(* await execute_llm_task(service, chat_history, context, schema_model):   *)
(* the function awaits service.get_chat_message_contents once.             *)
CallExecuteLLMTask ==
    /\ task_outcome = NotCalled
    /\ call_count' = call_count + 1
    /\ task_outcome' = execute_llm_task(task_schema, side_effect[call_count + 1])
    /\ UNCHANGED <<side_effect, task_schema>>
    /\ UNCHANGED notTaskVars

TaskNext == CallExecuteLLMTask

TaskSpec == TaskInit /\ [][TaskNext]_vars

---------------------------------------------------------------------------
(* core.process_sk_yaml_template and process_sk_yaml_template_with_vars    *)
(* called with the same template, service and variables: kernel.invoke     *)
(* gives both the same result.                                             *)

SkContents == Contents \cup {"true", "null", MISSING}

(* str() of an object that has no content attribute. *)
ObjectTexts == {"<object>", "hello"}

KernelResults ==
    {KernelResult("raises", "", "", e) : e \in BackendExceptions}
        \cup {NoKernelResult}
        \cup {KernelResult("value", c, "", "none") : c \in SkContents}
        \cup {KernelResult("value_no_content", "", t, "none") : t \in ObjectTexts}
        \cup {KernelResult("content", c, t, "none") :
                  c \in SkContents, t \in ObjectTexts}
        \cup {KernelResult("other", "", t, "none") : t \in ObjectTexts}

SkInit ==
    /\ IdleClassify
    /\ IdleRetry
    /\ IdleSched
    /\ entry = "none"
    /\ IdleChat
    /\ IdleRun
    /\ IdleSchema
    /\ IdleTask
    /\ IdleParam
    /\ kernel_result \in KernelResults
    /\ template_requires_json \in BOOLEAN
    /\ output_io \in CoreWriteConditions
    /\ sk_outcome = [f \in SkFunctions |-> NotCalled]
    /\ sk_written = [f \in SkFunctions |-> NoValue]

(* The end of both functions: _write_output_if_specified(output_file,      *)
(* response); return response.                                             *)
WriteThenReturn(f, r) ==
    LET w == write_output_if_specified(r.value, output_io) IN
    /\ sk_outcome[f] = NotCalled
    /\ sk_outcome' =
          [sk_outcome EXCEPT
              ![f] = IF r.error.cls = "none" /\ w.error.cls # "none"
                     THEN Raises(w.error.cls, w.error.message)
                     ELSE r]
    /\ sk_written' =
          [sk_written EXCEPT
              ![f] = IF r.error.cls = "none" THEN w.written ELSE NoValue]
    /\ UNCHANGED <<kernel_result, template_requires_json, output_io>>
    /\ UNCHANGED notSkVars

CallProcessSkYamlTemplate ==
    WriteThenReturn("process_sk_yaml_template",
                    process_sk_yaml_template(template_requires_json, kernel_result))

CallProcessSkYamlTemplateWithVars ==
    WriteThenReturn("process_sk_yaml_template_with_vars",
                    process_sk_yaml_template_with_vars(template_requires_json,
                                                       kernel_result))

SkNext == CallProcessSkYamlTemplate \/ CallProcessSkYamlTemplateWithVars

SkSpec == SkInit /\ [][SkNext]_vars

---------------------------------------------------------------------------
(* core.run_llm_task: the validation of its parameters and the choice of   *)
(* the processing branch.                                                  *)

(* The values an optional string argument is called with. *)
FileArgs == {None, "", "file"}
TemplateContents == {None, "", "template"}
TemplateFormats == {None, "", "handlebars", "jinja2", "semantic-kernel", "xml"}
TemplateVarsFiles == {None, "vars.yaml"}
TemplateVars == {None, "{}", "{'name': 'value'}"}

RunArgs ==
    [input_file : FileArgs, template_file : FileArgs,
     template_content : TemplateContents, template_format : TemplateFormats,
     template_vars_file : TemplateVarsFiles, template_vars : TemplateVars]

(* bool(x) of None, a string or a dict *)
truthy(x) == x \notin {None, "", "{}"}

InputMethods == {"input_file", "template_file", "template_content"}

(* template_inputs = [input_file, template_file, template_content] *)
template_inputs(a) == {k \in InputMethods : a[k] # None}

ValidFormats == {"handlebars", "jinja2", "semantic-kernel"}

Invalid(msg) == [cls |-> "InputValidationError", message |-> msg]

validate_parameters_CountTruthy(a) ==
    IF ~truthy(a.input_file) /\ ~truthy(a.template_file)
          /\ ~truthy(a.template_content)
    THEN Invalid("Either input_file, template_file, or template_content must be specified")
    ELSE IF Cardinality({k \in InputMethods : truthy(a[k])}) > 1
    THEN Invalid("Cannot specify multiple template inputs")
    ELSE IF truthy(a.template_content) /\ ~truthy(a.template_format)
    THEN Invalid("template_format is required when using template_content")
    ELSE IF truthy(a.template_vars_file) /\ truthy(a.template_vars)
    THEN Invalid("Cannot specify both template_vars_file and template_vars")
    ELSE IF truthy(a.template_format) /\ a.template_format \notin ValidFormats
    THEN Invalid("Invalid template_format")
    ELSE NoRunError

(* The checks run_llm_task starts with, in their order; NoRunError when    *)
(* none of them raises.                                                    *)
validate_parameters(a) ==
    IF ~truthy(a.input_file) /\ ~truthy(a.template_file)
          /\ ~truthy(a.template_content)
    THEN Invalid("Either input_file, template_file, or template_content must be specified")
    ELSE IF Cardinality(template_inputs(a)) > 1
    THEN Invalid("Cannot specify multiple template inputs")
    ELSE IF truthy(a.template_content) /\ ~truthy(a.template_format)
    THEN Invalid("template_format is required when using template_content")
    ELSE IF truthy(a.template_vars_file) /\ truthy(a.template_vars)
    THEN Invalid("Cannot specify both template_vars_file and template_vars")
    ELSE IF truthy(a.template_format) /\ a.template_format \notin ValidFormats
    THEN Invalid("Invalid template_format")
    ELSE NoRunError

(* if input_file: ... elif template_file: ... elif template_content: ...   *)
(* else: raise InputValidationError("No input method specified")           *)
select_branch(a) ==
    IF truthy(a.input_file)
    THEN [branch |-> "input_file", error |-> NoRunError]
    ELSE IF truthy(a.template_file)
    THEN [branch |-> "template_file", error |-> NoRunError]
    ELSE IF truthy(a.template_content)
    THEN IF a.template_format = None
         THEN [branch |-> "template_content",
               error |-> [cls |-> "ValueError",
                          message |-> "template_format must be specified when using template_content"]]
         ELSE [branch |-> "template_content", error |-> NoRunError]
    ELSE [branch |-> "else", error |-> Invalid("No input method specified")]

(* What setting up the service and loading the schema end with. *)
SetupOutcomes == {"none", "AuthenticationError", "SchemaValidationError"}

ParamInit ==
    /\ IdleClassify
    /\ IdleRetry
    /\ IdleSched
    /\ entry = "none"
    /\ IdleChat
    /\ IdleRun
    /\ IdleSchema
    /\ IdleTask
    /\ IdleSk
    /\ run_args \in RunArgs
    /\ param_pc = "called"
    /\ branch = "none"
    /\ param_error = NoRunError

ValidateParameters ==
    /\ param_pc = "called"
    /\ param_error' = validate_parameters(run_args)
    /\ param_pc' = IF param_error'.cls = "none" THEN "validated" ELSE "rejected"
    /\ UNCHANGED <<run_args, branch>>
    /\ UNCHANGED notParamVars

(* service, credential = await setup_llm_service();                        *)
(* schema_result = load_schema_file(...)                                   *)
SetupAndLoadSchema ==
    /\ param_pc = "validated"
    /\ \E e \in SetupOutcomes :
          /\ param_error' = IF e = "none" THEN NoRunError
                            ELSE [cls |-> e, message |-> ""]
          /\ param_pc' = IF e = "none" THEN "ready" ELSE "failed"
    /\ UNCHANGED <<run_args, branch>>
    /\ UNCHANGED notParamVars

SelectBranch ==
    /\ param_pc = "ready"
    /\ branch' = select_branch(run_args).branch
    /\ param_error' = select_branch(run_args).error
    /\ param_pc' = "dispatched"
    /\ UNCHANGED run_args
    /\ UNCHANGED notParamVars

ParamNext == ValidateParameters \/ SetupAndLoadSchema \/ SelectBranch

ParamSpec == ParamInit /\ [][ParamNext]_vars

---------------------------------------------------------------------------
(* Properties of the classification functions (under ClassifySpec).        *)

RetriableStatusCodes == {408, 429, 500, 502, 503, 504}
ClientErrorStatusCodes == {400, 401, 403, 404, 422}
AlwaysRetriedClasses == {"APIConnectionError", "APITimeoutError", "RateLimitError",
                         "ServiceRequestError", "ServiceResponseError"}

(* The errors the backend libraries build with a status code: openai's     *)
(* APIError (its APIStatusError family) with the response's code, its      *)
(* RateLimitError member with 429, and azure's HttpResponseError and its   *)
(* ClientAuthenticationError member with the response's code.  Connection  *)
(* and timeout errors are raised without a response, hence without a code. *)
StatusCodeClasses == {"APIError", "HttpResponseError", "ClientAuthenticationError"}
ExposesStatusCode(e) ==
    /\ e.status.kind = "int"
    /\ \/ e.cls \in StatusCodeClasses
       \/ (e.cls = "RateLimitError" /\ e.status.val = 429)

HasIntStatus(e) == e.status.kind = "int"
HasIntStatusIn(e, S) == e.status.kind = "int" /\ e.status.val \in S

C7_ConnectionTimeoutRateLimitAlwaysRetried ==
    (r_network # "unset" /\ exc.cls \in AlwaysRetriedClasses) => r_network = "retry"

C7_Witness ==
    /\ r_network = "retry"
    /\ exc.cls = "RateLimitError"
    /\ HasIntStatusIn(exc, {429})

\* C8: an error of no recognised backend type, or an APIError /
\* HttpResponseError whose status code is absent or not an integer, is
\* classified not retriable by each of the three classification functions.
Unclassifiable(e) ==
    \/ e.cls \in OtherClasses
    \/ (e.cls \in {"APIError", "HttpResponseError", "ClientAuthenticationError"}
        /\ ~HasIntStatus(e))

C9_OutsideSetNeverRetried ==
    (r_network # "unset" /\ ExposesStatusCode(exc)
        /\ exc.status.val \notin RetriableStatusCodes) => r_network = "noretry"

\* C9 amended: every error exposing an integer status code outside
\* {408, 429, 500, 502, 503, 504} is classified not retriable, except an
\* APIError whose code lies in 500..599 and the errors of an always-retried
\* type.
C9_OutsideSetNotRetriedExceptOpenAI5xx ==
    (/\ r_network # "unset"
     /\ HasIntStatus(exc)
     /\ exc.status.val \notin RetriableStatusCodes
     /\ exc.cls \notin AlwaysRetriedClasses
     /\ ~(exc.cls = "APIError" /\ 500 <= exc.status.val /\ exc.status.val <= 599))
        => r_network = "noretry"

C9_Witness ==
    /\ r_network = "noretry"
    /\ exc.cls = "HttpResponseError"
    /\ HasIntStatusIn(exc, {501})

---------------------------------------------------------------------------
(* Properties of the retry loop (under RetrySpec).                         *)

ConnectionErrorClasses == {"APIConnectionError", "ServiceRequestError"}
Failed(k) == k <= Len(history) /\ history[k] # "ok"
ConnectionFailed(k) == k <= Len(history) /\ history[k] \in ConnectionErrorClasses

\* C2: when the first attempt raises a ClientAuthenticationError, whatever
\* its status code, no second call is made: the invocation has failed after
\* exactly one call, with that error.
C2_AuthErrorOneCallThenFailed ==
    (Len(history) >= 1 /\ history[1] = "ClientAuthenticationError") =>
        /\ calls = 1
        /\ pc = "failed"
        /\ raised = lastExc
        /\ raised.cls = "ClientAuthenticationError"

C2_Witness ==
    /\ pc = "failed"
    /\ history = <<"ClientAuthenticationError">>
    /\ HasIntStatusIn(lastExc, {503})

\* C3: when attempts 1 and 2 raise a connection error the loop goes on each
\* time, and when attempt 3 then returns, the invocation ends in success
\* after exactly 3 calls.
C3_TwoConnectionErrorsThenSuccess ==
    /\ (Len(history) = 1 /\ ConnectionFailed(1))
            => (pc \in {"waiting", "attempting"} /\ calls = 1)
    /\ (Len(history) = 2 /\ ConnectionFailed(1) /\ ConnectionFailed(2))
            => (pc \in {"waiting", "attempting"} /\ calls = 2)
    /\ (Len(history) = 3 /\ ConnectionFailed(1) /\ ConnectionFailed(2) /\ history[3] = "ok")
            => (pc = "success" /\ calls = 3)

C3_Witness ==
    /\ pc = "success"
    /\ calls = 3
    /\ history = <<"APIConnectionError", "APIConnectionError", "ok">>

\* C4: one invocation makes at most 3 calls of the wrapped operation,
\* whatever the outcomes of the calls.
C4_AtMostThreeCalls == calls <= 3 /\ Len(history) = calls

C4_Witness ==
    /\ pc = "failed"
    /\ calls = 3
    /\ Failed(1) /\ Failed(2) /\ Failed(3)
    /\ lastExc.cls = "APITimeoutError"

\* C5: when all 3 attempts fail with retriable errors, the caller receives
\* the error of the third attempt itself, with its own class and status code.
RetriableForCertain(e) ==
    \/ e.cls \in AlwaysRetriedClasses
    \/ (e.cls \in {"APIError", "HttpResponseError"} /\ HasIntStatusIn(e, {500, 502, 503, 504}))

C5_LastErrorReraisedUnchanged ==
    (pc = "failed" /\ calls = 3 /\ RetriableForCertain(lastExc)) =>
        /\ raised = lastExc
        /\ raised.cls = history[3]

C5_Witness ==
    /\ pc = "failed"
    /\ calls = 3
    /\ history = <<"APITimeoutError", "RateLimitError", "APIError">>
    /\ raised.cls = "APIError"
    /\ HasIntStatusIn(raised, {503})

\* C6: a call is made only in an attempt and never after Success or Failed;
\* attempt 1 starts from Idle and attempt n+1 starts only after attempt n
\* failed with an error classified retriable and n < 3; an attempt failing
\* with an error classified not retriable goes to Failed without a wait;
\* Success and Failed are terminal.
C6_RetryStateMachine ==
    [][ /\ (calls' # calls =>
                (pc = "attempting" /\ calls' = calls + 1 /\ calls = attempt_number - 1))
        /\ (attempt_number' # attempt_number =>
                \/ (pc = "idle" /\ attempt_number' = 1)
                \/ (/\ pc = "waiting"
                    /\ Failed(attempt_number)
                    /\ should_retry_network_exception(lastExc)
                    /\ attempt_number < 3
                    /\ attempt_number' = attempt_number + 1))
        /\ (pc' = "waiting" /\ pc # "waiting" =>
                (/\ pc = "attempting"
                 /\ should_retry_network_exception(lastExc')
                 /\ attempt_number < 3))
        /\ (pc = "attempting" /\ history' # history /\ ~should_retry_network_exception(lastExc')
                /\ history'[Len(history')] # "ok" =>
                (pc' = "failed" /\ wait' = wait /\ attempt_number' = attempt_number))
        /\ (pc \in {"success", "failed"} => (pc' = pc /\ calls' = calls))
      ]_vars

C6_Witness ==
    /\ pc = "failed"
    /\ calls = 2
    /\ attempt_number = 2
    /\ history = <<"RateLimitError", "ClientAuthenticationError">>
    /\ wait = 1

---------------------------------------------------------------------------
(* Properties of the retry loop under cancellation (under CancelSpec).     *)

\* C24: a KeyboardInterrupt or CancelledError raised during an attempt or
\* during the wait between attempts is not retried: it is what the caller
\* receives, the call it ended (if any) is the last call made, and no
\* further attempt has been started.
C24_CancellationNeverRetried ==
    /\ \A k \in 1..Len(history) :
          history[k] \in {"KeyboardInterrupt", "CancelledError"} =>
              /\ k = Len(history)
              /\ pc = "failed"
              /\ raised.cls = history[k]
    /\ raised.cls \in {"KeyboardInterrupt", "CancelledError"} =>
          /\ pc = "failed"
          /\ calls = attempt_number
          /\ calls = Len(history)

C24_Witness ==
    /\ pc = "failed"
    /\ history = <<"APIConnectionError">>
    /\ raised.cls = "CancelledError"
    /\ attempt_number = 1
    /\ wait >= 1

---------------------------------------------------------------------------
(* Properties of the backoff schedule (under ScheduleSpec).                *)

\* C11: for every attempt number n >= 1 the wait scheduled before the next
\* attempt, in whole seconds, lies within [min_wait, max_wait] = [1, 30].
C11_WaitWithinMinMax ==
    sched_wait # 0 => (1 <= sched_wait /\ sched_wait <= 30)

C11_Witness ==
    /\ sched_n = 7
    /\ sched_wait = 30

---------------------------------------------------------------------------
(* Properties of create_chat_history and the hand-over (under ChatSpec).   *)

Offending(msg) ==
    \/ msg.role = MISSING
    \/ msg.content = MISSING
    \/ msg.role \notin {"system", "user", "assistant", "tool"}

HasOffending == \E k \in 1..Len(messages) : Offending(messages[k])

(* 0-based index of the first offending entry. *)
FirstOffending ==
    CHOOSE i \in 0..(Len(messages) - 1) :
        /\ Offending(messages[i + 1])
        /\ \A j \in 0..(i - 1) : ~Offending(messages[j + 1])

\* C16: a message list with an entry that lacks role, lacks content or has
\* an unrecognised role never yields a chat history; the
\* InputValidationError raised names the 0-based index of the first such
\* entry, and no entry from that index on has been processed.
C16_FirstOffendingIndexNamed ==
    /\ chat_pc \in {"built", "handed"} => ~HasOffending
    /\ chat_pc = "failed" =>
          /\ HasOffending
          /\ chat_error.cls = "InputValidationError"
          /\ chat_error.index = FirstOffending
          /\ msg_i = FirstOffending
          /\ Len(chat_history) = FirstOffending
    /\ HasOffending => msg_i <= FirstOffending

C16_Witness ==
    /\ chat_pc = "failed"
    /\ Len(messages) = 2
    /\ chat_error.index = 1
    /\ messages[2].role = "bogus"

\* C17: for a valid message list, the conversation handed to the execution
\* step has one entry per input message, in input order, each carrying the
\* message's role, content and, when given, name.
C17_ConversationCarriesEveryMessage ==
    chat_pc = "handed" =>
        /\ Len(conversation) = Len(messages)
        /\ \A k \in 1..Len(messages) :
              /\ conversation[k].role = messages[k].role
              /\ conversation[k].content = messages[k].content
              /\ messages[k].name # MISSING =>
                    conversation[k].name = messages[k].name

---------------------------------------------------------------------------
(* Properties of a run (under RunSpec).                                    *)

(* JSON output is required: a schema is given with an input file, or the   *)
(* SK template carries a json_schema response_format.                      *)
JSONRequired ==
    \/ run_mode = "input_file" /\ schema_model = "model"
    \/ run_mode = "sk_template" /\ requires_json

(* Answers that are not JSON. *)
NotJSON == {"hello", "{\"confidence\": 0.5"}

(* The error reports a schema failure. *)
IsSchemaFailure(e) ==
    \/ e.cls = "SchemaValidationError"
    \/ /\ e.cls = "LLMExecutionError"
       /\ e.message = "Schema enforcement failed - invalid JSON returned"

\* C12: with a schema whose field confidence has minimum 0 and maximum 1
\* and the answer {"confidence": 1.5}, the execution ends in a schema
\* failure and never in a structured response carrying the value.
C12_OutOfRangeIsSchemaFailure ==
    (/\ run_mode = "input_file"
     /\ schema_model = "model"
     /\ content = "{\"confidence\": 1.5}") =>
        /\ IsSchemaFailure(run_error)
        /\ response.kind # "dict"
        /\ out_response.kind # "dict"

MatchingAnswers ==
    {"{\"confidence\": 0.5}",
     "{\"sentiment\": \"neutral\", \"confidence\": 0.9}"}

FieldsOf(c) ==
    IF c = "{\"confidence\": 0.5}"
    THEN {[key |-> "confidence", num |-> 5, str |-> ""]}
    ELSE {[key |-> "sentiment", num |-> 0, str |-> "neutral"],
          [key |-> "confidence", num |-> 9, str |-> ""]}

\* C14: with a schema, an answer that is valid JSON matching the schema is
\* returned, and written, as a mapping with exactly the fields of the
\* answer: none added, dropped or changed.
C14_StructuredResponseEqualsAnswer ==
    (/\ run_mode = "input_file"
     /\ schema_model = "model"
     /\ content \in MatchingAnswers) =>
        /\ run_error.cls \notin {"LLMExecutionError", "SchemaValidationError"}
        /\ run_error.cls = "none" =>
              response.kind = "dict" /\ response.items = FieldsOf(content)
        /\ out_file = "complete" =>
              /\ out_response.kind = "dict"
              /\ out_response.items = FieldsOf(content)

C14_Witness ==
    /\ entry = "core"
    /\ run_mode = "input_file"
    /\ schema_model = "model"
    /\ content = "{\"sentiment\": \"neutral\", \"confidence\": 0.9}"
    /\ out_file = "complete"
    /\ exit_code = 0

\* C15: when JSON output is not required, an answer that does not parse as
\* JSON is the response, unchanged and as text; it is never an execution
\* or schema error, and a run without another failure exits with 0.
C15_UnparseableAnswerIsText ==
    (~JSONRequired /\ content \in NotJSON) =>
        /\ run_error.cls \notin {"LLMExecutionError", "SchemaValidationError"}
        /\ run_error.cls = "none" =>
              response.kind = "str" /\ response.text = content
        /\ out_file = "complete" =>
              out_response.kind = "str" /\ out_response.text = content
        /\ (run_pc = "exited" /\ run_error.cls = "none") => exit_code = 0

C15_Witness ==
    /\ entry = "llm_runner"
    /\ schema_model = "none"
    /\ content = "hello"
    /\ out_file = "complete"
    /\ run_pc = "exited"
    /\ exit_code = 0

\* C18: the output file is written at most once and only with the response
\* of a successful execution; on every failure path no output file exists,
\* whole or in part.
C18_OutputOnlyAfterFullSuccess ==
    /\ writes <= 1
    /\ out_file # "absent" => (out_file = "complete" /\ response # NoValue)
    /\ run_error.cls \notin {"none", "KeyboardInterrupt"} =>
          out_file = "absent"

\* C19: the process exits with 0 on success, with a non-zero code on a
\* failure, and on KeyboardInterrupt with a code that is neither 0 nor the
\* code of a failure, whichever entry point runs.
C19_ExitCodes ==
    run_pc = "exited" =>
        /\ run_error.cls = "none" => exit_code = 0
        /\ run_error.cls \notin {"none", "KeyboardInterrupt"} =>
              exit_code # 0
        /\ run_error.cls = "KeyboardInterrupt" =>
              exit_code # 0 /\ exit_code # 1

\* C20: when a run that created an Azure credential has ended, by
\* success, failure or interruption, the credential has been closed.
C20_CredentialClosedAtExit ==
    run_pc = "exited" => credential # "open"

(* Errors of input-message validation and of loading or compiling the     *)
(* schema.                                                                 *)
ValidationOrCompileMessages ==
    {"Input file not found or without messages",
     "Error processing message",
     "Invalid input file",
     "Schema file not found or invalid JSON",
     "Failed to create dynamic model"}

\* C21: a run that fails with an input-validation or a schema load/compile
\* error has not set up the LLM service or a credential before.
C21_ValidationBeforeService ==
    run_error.message \in ValidationOrCompileMessages =>
        service = "none" /\ credential = "none"

\* C22: a run given a schema document that cannot be loaded or compiled
\* makes no backend call and ends as a failure.
C22_InvalidSchemaNoBackendCall ==
    schema_file \in {"invalid_file", "invalid_schema"} =>
        /\ backend_calls = 0
        /\ content = ""
        /\ run_pc = "exited" => exit_code # 0

C22_Witness ==
    /\ schema_file = "invalid_schema"
    /\ run_error.cls = "SchemaValidationError"
    /\ service = "ready"
    /\ run_pc = "exited"

---------------------------------------------------------------------------
(* Properties of create_dynamic_model_from_schema (under SchemaSpec).      *)

C30_CloseFailureKeepsOutcome ==
    [][IF run_pc = "finally"
       THEN /\ response' = response
            /\ run_error' = run_error
            /\ close_calls = 0
            /\ close_calls' = IF credential # "none" THEN 1 ELSE 0
       ELSE close_calls' = close_calls]_vars

(* A run of run_llm_task whose body returned a response and whose close    *)
(* failed: the credential was obtained, close was called, and it is still  *)
(* open.                                                                   *)
C30_Witness ==
    /\ entry = "core"
    /\ run_pc = "exited"
    /\ close_calls = 1
    /\ credential = "open"
    /\ response.kind = "dict"
    /\ run_error = NoRunError
    /\ exit_code = 0

---------------------------------------------------------------------------
(* Properties of llm_runner.execute_llm_task (under TaskSpec).             *)

\* C25: when the first service call fails with a connection error and the
\* second call answers, execute_llm_task returns the text of that answer
\* and the service has been called exactly twice.
C25_RetriedOnTransientError ==
    (/\ task_outcome # NotCalled
     /\ task_schema = "none"
     /\ Len(side_effect) = 2
     /\ side_effect[1].raises = "ConnectionError"
     /\ side_effect[2].raises = "none"
     /\ side_effect[2].content = "hello") =>
        /\ task_outcome.error.cls = "none"
        /\ task_outcome.value.kind = "str"
        /\ task_outcome.value.text = "hello"
        /\ call_count = 2

(* The call raised, or the extraction of the response did. *)
CallOrExtractionRaised ==
    \/ side_effect[1].raises # "none"
    \/ side_effect[1].content = MISSING
    \/ task_schema = "model" /\ side_effect[1].content \in {"[1, 2]", "42"}

\* C26 as stated: every exception raised by the service call or by the
\* extraction of the response reaches the caller as LLMExecutionError.
C26_EveryExceptionIsLLMExecutionError ==
    (task_outcome # NotCalled /\ CallOrExtractionRaised) =>
        task_outcome.error.cls = "LLMExecutionError"

\* C26: every exception raised by the service call or by the extraction
\* that is an Exception reaches the caller as LLMExecutionError, and an
\* LLMExecutionError raised inside keeps its message; KeyboardInterrupt
\* and CancelledError reach the caller as they are.
C26_ExceptionsWrappedOnce ==
    task_outcome # NotCalled =>
        /\ (/\ CallOrExtractionRaised
            /\ side_effect[1].raises \notin {"KeyboardInterrupt", "CancelledError"}) =>
              task_outcome.error.cls = "LLMExecutionError"
        /\ side_effect[1].raises \in {"KeyboardInterrupt", "CancelledError"} =>
              task_outcome.error.cls = side_effect[1].raises
        /\ side_effect[1].raises = "LLMExecutionError" =>
              task_outcome.error.message = "Service error"
        /\ (/\ side_effect[1].raises = "none"
            /\ task_schema = "model"
            /\ side_effect[1].content \in NotJSON) =>
              task_outcome.error =
                  [cls |-> "LLMExecutionError",
                   message |-> "Schema enforcement failed - invalid JSON returned"]
        /\ side_effect[1].raises \in {"ConnectionError", "Exception"} =>
              task_outcome.error.message = "LLM execution failed"

C26_Witness ==
    /\ task_outcome.error.cls = "LLMExecutionError"
    /\ task_outcome.error.message = "Service error"
    /\ side_effect[1].raises = "LLMExecutionError"

---------------------------------------------------------------------------
(* Properties of the SK template functions (under SkSpec).                 *)

\* C27: the response the SK template functions return, and the response
\* they write to the output, is a string or a mapping, whatever the
\* content of the backend's answer is.
C27_ResponseIsStrOrMapping ==
    \A f \in SkFunctions :
        /\ (sk_outcome[f] # NotCalled /\ sk_outcome[f].error.cls = "none") =>
              sk_outcome[f].value.kind \in {"str", "dict"}
        /\ sk_written[f].kind \in {"none", "str", "dict"}

\* C29: called with the same template and variables, so that kernel.invoke
\* gives the same result, process_sk_yaml_template and
\* process_sk_yaml_template_with_vars return the same response or raise
\* the same error, for every shape of the result.
C29_SameExtraction ==
    (\A f \in SkFunctions : sk_outcome[f] # NotCalled) =>
        /\ sk_outcome["process_sk_yaml_template"]
              = sk_outcome["process_sk_yaml_template_with_vars"]
        /\ sk_written["process_sk_yaml_template"]
              = sk_written["process_sk_yaml_template_with_vars"]

---------------------------------------------------------------------------
(* Properties of run_llm_task's parameter validation (under ParamSpec).    *)

\* C28: once the parameter validation of run_llm_task has passed, exactly
\* one of input_file, template_file, template_content is not None and
\* that one is non-empty; the branch that runs is the branch of that
\* argument, and neither the "No input method specified" branch nor the
\* "template_format is None" check is ever taken.
C28_ExactlyOneInputMethod ==
    /\ param_pc \in {"validated", "ready", "failed", "dispatched"} =>
          /\ Cardinality(template_inputs(run_args)) = 1
          /\ \A k \in template_inputs(run_args) : truthy(run_args[k])
    /\ param_pc = "dispatched" =>
          /\ template_inputs(run_args) = {branch}
          /\ param_error = NoRunError

C28_Witness ==
    /\ param_pc = "dispatched"
    /\ branch = "template_content"
    /\ run_args.template_format = "jinja2"
    /\ run_args.input_file = None
    /\ run_args.template_file = None

===========================================================================
